---- MODULE Spec2Model ----
(***************************************************************************)
(* Model of cwop-sender: the unit conversions (conversions.py), the        *)
(* bounded numeric field CWOPValue, the report assembler                   *)
(* CWOPReport.to_cwop_packet, CWOP.prepare_report and the transport        *)
(* sequence of CWOP.send_report (cwop.py).                                 *)
(*                                                                         *)
(* Representation.                                                         *)
(*  - A Python str is a sequence of one-character strings.                 *)
(*  - An Optional value is None == <<>> or Some(x) == <<x>>.               *)
(*  - A Python number (int or float) is an exact rational <<n, d>>, d > 0, *)
(*    in lowest terms.  Float arithmetic is modelled by exact rational     *)
(*    arithmetic; the inputs of the specifications are multiples of 0.1    *)
(*    (measurements) and of 0.00001 degree (coordinates), for which the    *)
(*    truncations and renderings below coincide with CPython's.            *)
(***************************************************************************)
EXTENDS Integers, Sequences, FiniteSets, TLC

VARIABLES
    pc,         \* position of the main program (cwop-sender.py __main__)
    station,    \* the CWOP object: designator, LORAN position, altitude, ...
    report,     \* the CWOPReport built by prepare_report, or None
    packet,     \* the str returned by to_cwop_packet, or None
    sock,       \* the socket created by _open_socket: "none", "open", "closed"
    sockBound,  \* whether send_report's local name `sock` is bound
    failure,    \* the first failure raised by a transport step, or "none"
    raised,     \* the exception propagating out of the current call, or "none"
    args,       \* the arguments of the run (argparse namespace)
    conv,       \* one call of a pure function of conversions.py
    field       \* one CWOPValue built with the arguments of prepare_report

vars == <<pc, station, report, packet, sock, sockBound, failure, raised, args, conv, field>>

mainVars == <<pc, station, report, packet, sock, sockBound, failure, raised, args>>

----------------------------------------------------------------------------
(* Optional values and exact numbers                                       *)

None == <<>>

Some(x) == <<x>>

IsNone(o) == o = <<>>

Val(o) == o[1]

Abs(x) == IF x < 0 THEN -x ELSE x

RECURSIVE GCD(_, _)
GCD(a, b) == IF b = 0 THEN a ELSE GCD(b, a % b)

\* the rational n/d (d > 0) in lowest terms
Rat(n, d) == LET g == GCD(Abs(n), d) IN <<n \div g, d \div g>>

RatInt(n) == <<n, 1>>

\* a * b, reducing across the factors first so that products stay small
RatMul(a, b) ==
    LET g1 == GCD(Abs(a[1]), b[2])
        g2 == GCD(Abs(b[1]), a[2])
    IN  Rat((a[1] \div g1) * (b[1] \div g2), (a[2] \div g2) * (b[2] \div g1))

\* a / b for b > 0
RatDiv(a, b) == RatMul(a, <<b[2], b[1]>>)

RatAdd(a, b) == Rat(a[1] * b[2] + b[1] * a[2], a[2] * b[2])

RatLt(a, b) == a[1] * b[2] < b[1] * a[2]

\* int(x) of Python: truncation toward zero
Trunc(a) == IF a[1] >= 0 THEN a[1] \div a[2] ELSE -((-a[1]) \div a[2])

\* x % m of Python for m > 0: the result has the sign of m
RatMod(a, m) == Rat(a[1] % (m * a[2]), a[2])

\* pow(10, n) for n >= 0
Pow10(n) == 10 ^ n

----------------------------------------------------------------------------
(* Strings                                                                 *)

DigitChar(d) == <<"0", "1", "2", "3", "4", "5", "6", "7", "8", "9">>[d + 1]

Digits == {DigitChar(d) : d \in 0..9}

RECURSIVE NatStr(_)
NatStr(n) == IF n < 10 THEN <<DigitChar(n)>>
             ELSE NatStr(n \div 10) \o <<DigitChar(n % 10)>>

\* str(n) of an int
IntStr(n) == IF n < 0 THEN <<"-">> \o NatStr(-n) ELSE NatStr(n)

RECURSIVE Repeat(_, _)
Repeat(c, n) == IF n <= 0 THEN <<>> ELSE <<c>> \o Repeat(c, n - 1)

\* format spec ">0{w}" / "0{w}d" applied to an already rendered unsigned
\* text: the fill character is put on the left of the whole text
PadLeft(s, w, c) == Repeat(c, w - Len(s)) \o s

RECURSIVE Replace(_, _, _)
Replace(s, old, new) ==
    IF s = <<>> THEN <<>>
    ELSE <<IF Head(s) = old THEN new ELSE Head(s)>> \o Replace(Tail(s), old, new)

Contains(s, c) == \E i \in 1..Len(s) : s[i] = c

RECURSIVE Join(_, _)
Join(parts, sep) ==
    IF parts = <<>> THEN <<>>
    ELSE IF Len(parts) = 1 THEN parts[1]
    ELSE parts[1] \o sep \o Join(Tail(parts), sep)

----------------------------------------------------------------------------
(* conversions.py                                                          *)

celsius_to_fahrenheit(c) == RatAdd(RatDiv(RatMul(c, RatInt(9)), RatInt(5)), RatInt(32))

kph_to_mph(kph) == RatDiv(kph, Rat(1609344, 1000000))

ms_to_kph(m) == RatMul(m, Rat(36, 10))

meters_to_feet(meters) == RatMul(meters, Rat(328084, 100000))

mm_to_inch(mm) == RatDiv(mm, Rat(254, 10))

\* f"{x:.2f}" for x >= 0: rounded to hundredths (ties to even), at least one
\* integer digit, no padding of the integer part
FormatFixed2(x) ==
    LET fl  == (100 * x[1]) \div x[2]
        rem == 100 * x[1] - fl * x[2]
        h   == IF 2 * rem > x[2] THEN fl + 1
               ELSE IF 2 * rem < x[2] THEN fl
               ELSE IF fl % 2 = 0 THEN fl ELSE fl + 1
    IN  NatStr(h \div 100) \o <<".">> \o PadLeft(NatStr(h % 100), 2, "0")

\* coordinates_loran(type, coord): [raised, value]
coordinates_loran(type, coord) ==
    IF type \notin {"LATITUDE", "LONGITUDE"}
    THEN [raised |-> "ConversionException", value |-> <<>>]
    ELSE
        LET absc     == <<Abs(coord[1]), coord[2]>>
            decimals == RatMod(absc, 1)
            degrees  == Abs(Trunc(coord))
            minutes  == FormatFixed2(RatMul(decimals, RatInt(60)))
            positive == coord[1] > 0
            direction == IF type = "LATITUDE"
                         THEN (IF positive THEN "N" ELSE "S")
                         ELSE (IF positive THEN "E" ELSE "W")
            degtext  == IF type = "LATITUDE" THEN NatStr(degrees)
                        ELSE PadLeft(NatStr(degrees), 3, "0")
        IN  [raised |-> "none", value |-> degtext \o minutes \o <<direction>>]

\* latitude_loran(coord); a coord that is not a number is None here
latitude_loran(coord) ==
    IF IsNone(coord) THEN [raised |-> "ConversionException", value |-> <<>>]
    ELSE coordinates_loran("LATITUDE", Val(coord))

longitude_loran(coord) ==
    IF IsNone(coord) THEN [raised |-> "ConversionException", value |-> <<>>]
    ELSE coordinates_loran("LONGITUDE", Val(coord))

\* a variant that tests the sign of the input before truncating it
number_to_max_length_int_SignFirst(input, max_length, negative) ==
    IF IsNone(input) THEN None
    ELSE
        LET i  == Trunc(Val(input))
            ml == IF max_length > 0 /\ i < 0 THEN max_length - 1 ELSE max_length
        IN  IF Val(input)[1] < 0 /\ ~negative THEN None
            ELSE IF max_length > 0 /\ Abs(i) >= Pow10(ml) THEN None
            ELSE Some(i)

\* number_to_max_length_int(input, max_length, negative): Optional int
number_to_max_length_int(input, max_length, negative) ==
    IF IsNone(input) THEN None
    ELSE
        LET i  == Trunc(Val(input))
            ml == IF max_length > 0 /\ i < 0 THEN max_length - 1 ELSE max_length
        IN  IF i < 0 /\ ~negative THEN None
            ELSE IF max_length > 0 /\ Abs(i) >= Pow10(ml) THEN None
            ELSE Some(i)

----------------------------------------------------------------------------
(* cwop.py: CWOPValue                                                      *)

\* A value of CWOPValue._int_value: an int (isfloat = FALSE, d = 0) or a
\* float with one decimal digit (-0.0 keeps its sign in neg).
PyInt(n) == [isfloat |-> FALSE, neg |-> n < 0, mag |-> Abs(n), d |-> 0]

PyFloat(neg, mag, d) == [isfloat |-> TRUE, neg |-> neg, mag |-> mag, d |-> d]

\* truthiness of an Optional number: None, 0 and 0.0 are falsy
Truthy(o) == ~IsNone(o) /\ Val(o)[1] # 0

\* truthiness of _int_value
TruthyNum(o) == ~IsNone(o) /\ (Val(o).mag # 0 \/ Val(o).d # 0)

\* the decimal digits of the fraction r/den (0 <= r < den), at most k of
\* them, stopping when the expansion ends
RECURSIVE FracDigits(_, _, _)
FracDigits(r, den, k) ==
    IF k <= 0 \/ r = 0 THEN <<>>
    ELSE <<DigitChar((10 * r) \div den)>> \o FracDigits((10 * r) % den, den, k - 1)

\* str(x)[:k] for a float x with 0.0001 <= abs(x) < 1e16 or x = 0: sign,
\* integer digits, ".", fraction digits (at least one)
FloatStrPrefix(x, k) ==
    LET a    == Abs(x[1])
        ip   == a \div x[2]
        fr   == FracDigits(a % x[2], x[2], k)
        full == (IF x[1] < 0 THEN <<"-">> ELSE <<>>) \o NatStr(ip) \o <<".">>
                \o (IF fr = <<>> THEN <<"0">> ELSE fr)
    IN  SubSeq(full, 1, IF Len(full) < k THEN Len(full) ELSE k)

DigitVal(c) == CHOOSE d \in 0..9 : DigitChar(d) = c

RECURSIVE ParseNat(_, _)
ParseNat(s, acc) == IF s = <<>> THEN acc
                    ELSE ParseNat(Tail(s), 10 * acc + DigitVal(Head(s)))

\* float(cut) if "." in cut else int(cut), for a cut of FloatStrPrefix that
\* holds at least one digit and at most one digit after the "."
ParseCut(cut) ==
    LET neg  == cut # <<>> /\ Head(cut) = "-"
        body == IF neg THEN Tail(cut) ELSE cut
        dot  == IF Contains(body, ".")
                THEN CHOOSE i \in 1..Len(body) : body[i] = "." ELSE 0
    IN  IF dot = 0
        THEN PyInt(IF neg THEN -ParseNat(body, 0) ELSE ParseNat(body, 0))
        ELSE PyFloat(neg, ParseNat(SubSeq(body, 1, dot - 1), 0),
                     IF dot < Len(body) THEN DigitVal(body[dot + 1]) ELSE 0)

\* str() of an _int_value: an int in decimal, a float as its repr
NumStr(v) ==
    (IF v.neg THEN <<"-">> ELSE <<>>) \o NatStr(v.mag)
    \o (IF v.isfloat THEN <<".", DigitChar(v.d)>> ELSE <<>>)

\* the converter argument of CWOPValue, by the name of its use in
\* prepare_report; the result is the Optional number _converted
Convert(converter, value) ==
    CASE converter = "celsius_to_fahrenheit" -> Some(celsius_to_fahrenheit(value))
      [] converter = "humidity" -> Some(RatInt(Trunc(RatMod(value, 100))))
      [] converter = "pressure" ->
            LET r == number_to_max_length_int(Some(RatDiv(value, RatInt(10))), 0, FALSE)
            IN  IF IsNone(r) THEN None ELSE Some(RatInt(Val(r)))
      [] converter = "wind" -> Some(kph_to_mph(ms_to_kph(value)))
      [] converter = "rain" -> Some(RatMul(RatInt(100), mm_to_inch(value)))
      [] converter = "snow" -> Some(mm_to_inch(value))
      [] OTHER -> Some(value)

\* CWOPValue.__init__
CWOPValue(value, converter, max_digits, negative, use_float, prefix) ==
    LET converted == IF converter # "none" /\ ~IsNone(value)
                     THEN Convert(converter, Val(value)) ELSE value
        n         == number_to_max_length_int(converted, max_digits, negative)
        int0      == IF IsNone(n) THEN None ELSE Some(PyInt(Val(n)))
        refloat   == /\ use_float
                     /\ Truthy(converted)
                     /\ \/ TruthyNum(int0) /\ Val(int0).mag < Pow10(max_digits)
                        \/ RatLt(Val(converted), RatInt(1))
        int_value == IF refloat
                     THEN Some(ParseCut(FloatStrPrefix(Val(converted), max_digits)))
                     ELSE int0
    IN  [value       |-> value,
         max_digits |-> max_digits,
         converted  |-> converted,
         int_value  |-> int_value,
         prefix      |-> IF Len(prefix) = 1 THEN prefix ELSE <<>>]

\* CWOPValue.__bool__
Bool(cv) == ~IsNone(cv.int_value)

\* CWOPValue.__str__
Str(cv) ==
    IF cv.max_digits <= 0
    THEN (IF Bool(cv) THEN cv.prefix \o NumStr(Val(cv.int_value)) ELSE <<>>)
    ELSE IF ~Bool(cv)
    THEN cv.prefix \o Repeat(".", cv.max_digits)
    ELSE cv.prefix \o PadLeft(NumStr(Val(cv.int_value)), cv.max_digits, "0")

\* the measurement kinds of prepare_report, in the order of its parameters
Kinds == {"wind", "wind_dir", "gust", "temperature", "humidity", "pressure",
          "rain_1h", "rain_24h", "rain_day", "snow_24h", "illuminance"}

\* the keyword arguments of the CWOPValue that prepare_report builds for
\* each measurement (the illuminance prefix is the primary one)
FieldConfig(kind) ==
    CASE kind = "temperature" ->
            [converter |-> "celsius_to_fahrenheit", max_digits |-> 3,
             negative |-> TRUE, use_float |-> FALSE, prefix |-> <<"t">>]
      [] kind = "humidity" ->
            [converter |-> "humidity", max_digits |-> 2,
             negative |-> FALSE, use_float |-> FALSE, prefix |-> <<"h">>]
      [] kind = "pressure" ->
            [converter |-> "pressure", max_digits |-> 5,
             negative |-> FALSE, use_float |-> FALSE, prefix |-> <<"b">>]
      [] kind = "wind" ->
            [converter |-> "wind", max_digits |-> 3,
             negative |-> FALSE, use_float |-> FALSE, prefix |-> <<"/">>]
      [] kind = "wind_dir" ->
            [converter |-> "none", max_digits |-> 3,
             negative |-> FALSE, use_float |-> FALSE, prefix |-> <<"_">>]
      [] kind = "gust" ->
            [converter |-> "wind", max_digits |-> 3,
             negative |-> FALSE, use_float |-> FALSE, prefix |-> <<"g">>]
      [] kind = "rain_1h" ->
            [converter |-> "rain", max_digits |-> 3,
             negative |-> FALSE, use_float |-> FALSE, prefix |-> <<"r">>]
      [] kind = "rain_24h" ->
            [converter |-> "rain", max_digits |-> 3,
             negative |-> FALSE, use_float |-> FALSE, prefix |-> <<"p">>]
      [] kind = "rain_day" ->
            [converter |-> "rain", max_digits |-> 3,
             negative |-> FALSE, use_float |-> FALSE, prefix |-> <<"P">>]
      [] kind = "snow_24h" ->
            [converter |-> "snow", max_digits |-> 3,
             negative |-> FALSE, use_float |-> TRUE, prefix |-> <<"s">>]
      [] kind = "illuminance" ->
            [converter |-> "none", max_digits |-> 3,
             negative |-> FALSE, use_float |-> FALSE, prefix |-> <<"L">>]

\* the field prepare_report builds for one measurement: Some(CWOPValue), or
\* None for an illuminance that is falsy.  An illuminance of 1000 or more is
\* passed as illuminance - 1000 with the prefix "l".
FieldOf(kind, v) ==
    LET c      == FieldConfig(kind)
        illum  == kind = "illuminance"
        high   == illum /\ Truthy(v) /\ ~RatLt(Val(v), RatInt(1000))
        value  == IF high THEN Some(RatAdd(Val(v), RatInt(-1000))) ELSE v
        prefix == IF high THEN <<"l">> ELSE c.prefix
    IN  IF illum /\ ~Truthy(v) THEN None
        ELSE Some(CWOPValue(value, c.converter, c.max_digits, c.negative,
                            c.use_float, prefix))

----------------------------------------------------------------------------
(* Bounds                                                                  *)

\* measurements are k * scale tenths of a unit, -MaxK <= k <= MaxK
MaxK == 120

\* max_length arguments tried on number_to_max_length_int: 0..MaxLength
MaxLength == 3

\* fractions of a degree tried per degree: k / FracSamples, and the
\* LastFracs largest multiples of 0.00001 below 1
FracSamples == 40

LastFracs == 10

\* the CLI accepts latitudes in [-90, 90] and longitudes in [-180, 180]
MaxLatitude == 90

MaxLongitude == 180

\* a measurement of t tenths of its unit
Tenths(t) == Rat(t, 10)

\* a coordinate of c hundred-thousandths of a degree
Coord(c) == Rat(c, 100000)

----------------------------------------------------------------------------
(* The state of the other specifications while one of them runs            *)

IdleMain ==
    /\ pc = "idle"
    /\ station = None
    /\ report = None
    /\ packet = None
    /\ sock = "none"
    /\ sockBound = FALSE
    /\ failure = "none"
    /\ raised = "none"
    /\ args = None

IdleConv == conv = [fn |-> "idle"]

IdleField == field = [kind |-> "idle"]

----------------------------------------------------------------------------
(* SpecConv: the pure functions of conversions.py on bounded inputs        *)

N2IInputs ==
    {None} \cup {Some(Tenths(k)) : k \in -MaxK..MaxK}
           \cup {Some(Tenths(100 * k)) : k \in -MaxK..MaxK}

Fracs == {k * (100000 \div FracSamples) : k \in 0..(FracSamples - 1)}
         \cup {100000 - k : k \in 1..LastFracs}

CoordInputs(maxdeg) ==
    {None} \cup {Some(Coord(sg * (dg * 100000 + f))) :
                    sg \in {-1, 1}, dg \in 0..(maxdeg - 1), f \in Fracs}
           \cup {Some(Coord(sg * maxdeg * 100000)) : sg \in {-1, 1}}

ConvInit ==
    /\ IdleMain
    /\ IdleField
    /\ \/ conv \in [fn : {"number_to_max_length_int"}, input : N2IInputs,
                    max_length : 0..MaxLength, negative : BOOLEAN,
                    stage : {"call"}, result : {None}]
       \/ conv \in [fn : {"latitude_loran"}, coord : CoordInputs(MaxLatitude),
                    stage : {"call"}, result : {None}]
       \/ conv \in [fn : {"longitude_loran"}, coord : CoordInputs(MaxLongitude),
                    stage : {"call"}, result : {None}]
       \/ conv \in [fn : {"coordinates_loran"}, type : {"LATITUDE", "LONGITUDE", "ALTITUDE"},
                    coord : {Some(Coord(4550000)), Some(Coord(-12233000))},
                    stage : {"call"}, result : {None}]

CallNumberToMaxLengthInt ==
    /\ conv.fn = "number_to_max_length_int" /\ conv.stage = "call"
    /\ conv' = [conv EXCEPT !.stage = "done",
                  !.result = number_to_max_length_int(conv.input, conv.max_length, conv.negative)]
    /\ UNCHANGED <<mainVars, field>>

CallLatitudeLoran ==
    /\ conv.fn = "latitude_loran" /\ conv.stage = "call"
    /\ conv' = [conv EXCEPT !.stage = "done", !.result = latitude_loran(conv.coord)]
    /\ UNCHANGED <<mainVars, field>>

CallLongitudeLoran ==
    /\ conv.fn = "longitude_loran" /\ conv.stage = "call"
    /\ conv' = [conv EXCEPT !.stage = "done", !.result = longitude_loran(conv.coord)]
    /\ UNCHANGED <<mainVars, field>>

CallCoordinatesLoran ==
    /\ conv.fn = "coordinates_loran" /\ conv.stage = "call"
    /\ conv' = [conv EXCEPT !.stage = "done",
                  !.result = coordinates_loran(conv.type, Val(conv.coord))]
    /\ UNCHANGED <<mainVars, field>>

ConvNext ==
    \/ CallNumberToMaxLengthInt
    \/ CallLatitudeLoran
    \/ CallLongitudeLoran
    \/ CallCoordinatesLoran

SpecConv == ConvInit /\ [][ConvNext]_vars

----------------------------------------------------------------------------
(* SpecField: one field of prepare_report, built and rendered              *)

\* the step sizes (in tenths of the unit) of the values tried per kind
Scales(kind) ==
    CASE kind = "temperature" -> {1, 50}
      [] kind = "humidity"    -> {1, 10}
      [] kind = "pressure"    -> {1, 1000, 100000}
      [] kind \in {"wind", "gust"} -> {1, 50}
      [] kind = "wind_dir"    -> {10, 100}
      [] kind \in {"rain_1h", "rain_24h", "rain_day"} -> {1, 30}
      [] kind = "snow_24h"    -> {1, 25, 2500}
      [] kind = "illuminance" -> {1, 10, 200}

FieldInputs(kind) ==
    {None} \cup {Some(Tenths(k * sc)) : k \in -MaxK..MaxK, sc \in Scales(kind)}

FieldInit ==
    /\ IdleMain
    /\ IdleConv
    /\ \E kind \in Kinds :
          field \in [kind : {kind}, value : FieldInputs(kind), stage : {"args"},
                     cv : {None}, text : {<<>>}]

\* the CWOPValue(...) expression of prepare_report for this measurement
BuildField ==
    /\ field.kind \in Kinds /\ field.stage = "args"
    /\ field' = [field EXCEPT !.stage = "built", !.cv = FieldOf(field.kind, field.value)]
    /\ UNCHANGED <<mainVars, conv>>

\* str(field), as to_cwop_packet interpolates it
StrField ==
    /\ field.kind \in Kinds /\ field.stage = "built"
    /\ ~IsNone(field.cv)
    /\ field' = [field EXCEPT !.stage = "str", !.text = Str(Val(field.cv))]
    /\ UNCHANGED <<mainVars, conv>>

FieldNext == BuildField \/ StrField

SpecField == FieldInit /\ [][FieldNext]_vars

----------------------------------------------------------------------------
(* cwop.py: CWOPReport.to_cwop_packet                                      *)

APRSHeader == <<">", "A", "P", "R", "S", ",", "T", "C", "P", "I", "P", "*", ":">>

SoftwareSuffix == <<"-", " ", "c", "w", "o", "p", "-", "s", "e", "n", "d", "e", "r", ".", "p", "y">>

\* str(x) of a float whose decimal expansion is short (the altitude in feet
\* of a whole number of meters below 35)
FloatStr(x) == FloatStrPrefix(x, 32)

\* f"{timestamp:%d%H%M}"
TimeGroup(ts) ==
    PadLeft(NatStr(ts.day), 2, "0") \o PadLeft(NatStr(ts.hour), 2, "0")
    \o PadLeft(NatStr(ts.minute), 2, "0")

\* f"{self.a}{self.b}...": the str() of the named fields, one after the other
RECURSIVE FieldsStr(_, _)
FieldsStr(r, names) ==
    IF names = <<>> THEN <<>>
    ELSE Str(Val(r.fields[Head(names)])) \o FieldsStr(r, Tail(names))

\* `if self.<field>:` followed by `packet += str(self.<field>)`
OptionalFieldStr(f) == IF ~IsNone(f) /\ Bool(Val(f)) THEN Str(Val(f)) ELSE <<>>

\* the "/A=..." token and the comment, each only when truthy, then the suffix
CommentData(r) ==
    (IF Truthy(r.altitude) THEN <<<<"/", "A", "=">> \o FloatStr(Val(r.altitude))>> ELSE <<>>)
    \o (IF ~IsNone(r.comment) /\ Val(r.comment) # <<>> THEN <<Val(r.comment)>> ELSE <<>>)
    \o <<SoftwareSuffix>>

\* wind direction, wind, gust and temperature
WeatherHead == <<"wind_dir", "wind", "gust", "temperature">>

\* a variant that leaves the humidity out of the interpolation
WeatherTailOmit == <<"rain_24h", "rain_day", "pressure">>

\* rain-24h, rain-day, humidity and pressure
WeatherTail == <<"rain_24h", "rain_day", "humidity", "pressure">>

\* CWOPReport.to_cwop_packet
to_cwop_packet(r) ==
    r.designator \o APRSHeader
    \o (IF ~IsNone(r.timestamp)
        THEN <<"@">> \o TimeGroup(Val(r.timestamp)) \o <<"z">>
        ELSE <<"=">>)
    \o r.latitude \o <<"/">> \o r.longitude
    \o FieldsStr(r, WeatherHead)
    \o OptionalFieldStr(r.fields["rain_1h"])
    \o FieldsStr(r, WeatherTail)
    \o OptionalFieldStr(r.fields["illuminance"])
    \o OptionalFieldStr(r.fields["snow_24h"])
    \o Join(CommentData(r), <<" ">>)

----------------------------------------------------------------------------
(* cwop.py: CWOP.__init__ and CWOP.prepare_report                          *)

\* CWOP.__init__: [raised, self]
CWOPInit(designator, latitude, longitude, server, altitude, passcode) ==
    LET lat == latitude_loran(latitude)
        lon == longitude_loran(longitude)
    IN  IF lat.raised # "none" THEN [raised |-> lat.raised, self |-> None]
        ELSE IF lon.raised # "none" THEN [raised |-> lon.raised, self |-> None]
        ELSE [raised |-> "none",
              self |-> Some([
                designator |-> designator,
                latitude   |-> lat.value,
                longitude  |-> lon.value,
                altitude   |-> IF Truthy(altitude)
                               THEN Some(meters_to_feet(Val(altitude))) ELSE None,
                passcode   |-> passcode,
                server     |-> IF ~IsNone(server) /\ Val(server) # ""
                               THEN Val(server)
                               ELSE IF ~IsNone(passcode) /\ Val(passcode) # 0
                               THEN "rotate.aprs.net" ELSE "cwop.aprs.net"])]

\* timestamp.astimezone(datetime.timezone.utc), for a time whose UTC
\* equivalent falls in the same month
AsUTC(ts) ==
    LET hours == ts.day * 24 + ts.hour - ts.utcoffset
    IN  [day |-> hours \div 24, hour |-> hours % 24, minute |-> ts.minute]

\* the replacement of "~" and "|" in a truthy comment
Sanitize(comment) ==
    IF ~IsNone(comment) /\ Val(comment) # <<>>
    THEN Some(Replace(Replace(Val(comment), "~", "-"), "|", "/"))
    ELSE comment

\* CWOP.prepare_report; the eleven CWOPValue fields of the report are
\* fields[kind], kind being the name of the parameter (wind_gust is
\* fields["gust"]); a.timestamp is [given, value]: when the argument is
\* not given its default is the typing object Optional[datetime], which is
\* truthy and has no astimezone; now is the reading of utcnow()
prepare_report(self, a, now) ==
    IF ~a.timestamp.given
    THEN [raised |-> "AttributeError", report |-> None]
    ELSE [raised |-> "none",
          report |-> Some([
            designator  |-> self.designator,
            timestamp   |-> IF ~IsNone(a.timestamp.value)
                            THEN Some(AsUTC(Val(a.timestamp.value)))
                            ELSE Some(now),
            latitude    |-> self.latitude,
            longitude   |-> self.longitude,
            altitude    |-> self.altitude,
            fields      |-> [k \in Kinds |-> FieldOf(k, a[k])],
            comment     |-> Sanitize(a.comment)])]

----------------------------------------------------------------------------
(* Spec: one run of the program, from its arguments to the end of          *)
(* send_report (or of the dry run)                                         *)

\* values tried per argument: k units, -1 <= k <= MaxSample
MaxSample == 4

\* altitudes tried, in meters: 0..MaxAltitude
MaxAltitude == 3

\* a character outside ASCII
NonASCII == "<U+00E9>"

IsASCII(s) == \A i \in 1..Len(s) : s[i] # NonASCII

N0CALL == <<"N", "0", "C", "A", "L", "L">>

\* the value of one unit of each measurement, in tenths
Unit(kind) ==
    CASE kind = "temperature" -> 200
      [] kind = "humidity"    -> 500
      [] kind = "pressure"    -> 101325
      [] kind \in {"wind", "gust"} -> 50
      [] kind = "wind_dir"    -> 900
      [] kind \in {"rain_1h", "rain_24h", "rain_day"} -> 127
      [] kind = "snow_24h"    -> 127
      [] kind = "illuminance" -> 5000

Samples(kind) == {None} \cup {Some(Tenths(k * Unit(kind))) : k \in -1..MaxSample}

Timestamps == {[day |-> 4, hour |-> 18, minute |-> 7, utcoffset |-> 0],
               [day |-> 5, hour |-> 1, minute |-> 30, utcoffset |-> 2]}

\* readings of datetime.utcnow()
Clock == {[day |-> 4, hour |-> 18, minute |-> 3],
          [day |-> 28, hour |-> 9, minute |-> 59]}

Comments == {None, Some(<<>>), Some(<<"a", "~", "b", "|", "c">>),
             Some(<<"o", "k">>), Some(<<"t", NonASCII>>)}

\* four complete sets of arguments: nothing optional given, every number
\* zero, a typical observation, and one whose values are too large
Profile(p) ==
    CASE p = "none" ->
            [designator |-> N0CALL, lat |-> Some(Coord(4500000)),
             lon |-> Some(Coord(-12200000)), alt |-> None, passcode |-> None,
             server |-> None, dry_run |-> FALSE,
             timestamp |-> [given |-> TRUE, value |-> None],
             wind |-> None, wind_dir |-> None, gust |-> None, temperature |-> None,
             humidity |-> None, pressure |-> None, rain_1h |-> None,
             rain_24h |-> None, rain_day |-> None, snow_24h |-> None,
             illuminance |-> None, comment |-> None]
      [] p = "zero" ->
            [designator |-> N0CALL, lat |-> Some(Coord(0)),
             lon |-> Some(Coord(0)), alt |-> Some(RatInt(0)), passcode |-> Some(0),
             server |-> Some(""), dry_run |-> FALSE,
             timestamp |-> [given |-> TRUE, value |-> None],
             wind |-> Some(Tenths(0)), wind_dir |-> Some(Tenths(0)),
             gust |-> Some(Tenths(0)), temperature |-> Some(Tenths(0)),
             humidity |-> Some(Tenths(0)), pressure |-> Some(Tenths(0)),
             rain_1h |-> Some(Tenths(0)), rain_24h |-> Some(Tenths(0)),
             rain_day |-> Some(Tenths(0)), snow_24h |-> Some(Tenths(0)),
             illuminance |-> Some(Tenths(0)), comment |-> Some(<<>>)]
      [] p = "typical" ->
            [designator |-> N0CALL, lat |-> Some(Coord(4550000)),
             lon |-> Some(Coord(-12233000)), alt |-> Some(RatInt(1)),
             passcode |-> Some(12345), server |-> None, dry_run |-> FALSE,
             timestamp |-> [given |-> TRUE,
                            value |-> Some([day |-> 4, hour |-> 18, minute |-> 7,
                                            utcoffset |-> 0])],
             wind |-> Some(Tenths(Unit("wind"))),
             wind_dir |-> Some(Tenths(Unit("wind_dir"))),
             gust |-> Some(Tenths(Unit("gust"))),
             temperature |-> Some(Tenths(Unit("temperature"))),
             humidity |-> Some(Tenths(Unit("humidity"))),
             pressure |-> Some(Tenths(Unit("pressure"))),
             rain_1h |-> Some(Tenths(Unit("rain_1h"))),
             rain_24h |-> Some(Tenths(Unit("rain_24h"))),
             rain_day |-> Some(Tenths(Unit("rain_day"))),
             snow_24h |-> Some(Tenths(Unit("snow_24h"))),
             illuminance |-> Some(Tenths(Unit("illuminance"))),
             comment |-> Some(<<"o", "k">>)]
      [] p = "huge" ->
            [designator |-> N0CALL, lat |-> Some(Coord(-3386881)),
             lon |-> Some(Coord(15120930)), alt |-> Some(RatInt(MaxAltitude)),
             passcode |-> None, server |-> None, dry_run |-> FALSE,
             timestamp |-> [given |-> TRUE,
                            value |-> Some([day |-> 5, hour |-> 1, minute |-> 30,
                                            utcoffset |-> 2])],
             wind |-> Some(Tenths(5000)), wind_dir |-> Some(Tenths(10000)),
             gust |-> Some(Tenths(5000)), temperature |-> Some(Tenths(6000)),
             humidity |-> Some(Tenths(1000)), pressure |-> Some(Tenths(10000000)),
             rain_1h |-> Some(Tenths(3000)), rain_24h |-> Some(Tenths(3000)),
             rain_day |-> Some(Tenths(3000)), snow_24h |-> Some(Tenths(300000)),
             illuminance |-> Some(Tenths(25000)),
             comment |-> Some(<<"a", "~", "b", "|", "c">>)]

Profiles == {"none", "zero", "typical", "huge"}

\* one profile with one argument replaced
ArgSets ==
    LET P == {Profile(p) : p \in Profiles}
    IN  P
        \cup UNION {{[a EXCEPT ![kind] = v] : v \in Samples(kind)} :
                        a \in P, kind \in Kinds}
        \cup {[a EXCEPT !.timestamp = t] : a \in P,
                t \in {[given |-> FALSE, value |-> None]}
                      \cup {[given |-> TRUE, value |-> Some(ts)] : ts \in Timestamps}}
        \cup {[a EXCEPT !.comment = c] : a \in P, c \in Comments}
        \cup {[a EXCEPT !.alt = m] : a \in P,
                m \in {None} \cup {Some(RatInt(k)) : k \in 0..MaxAltitude}}
        \cup {[a EXCEPT !.lat = c] : a \in P,
                c \in {None, Some(Coord(-525000)), Some(Coord(8999999))}}
        \cup {[a EXCEPT !.lon = c] : a \in P,
                c \in {None, Some(Coord(999999)), Some(Coord(18000000))}}
        \cup {[a EXCEPT !.designator = d] : a \in P,
                d \in {<<"F", "4", NonASCII, "T">>}}
        \cup {[a EXCEPT !.passcode = c] : a \in P, c \in {None, Some(0), Some(12345)}}
        \cup {[a EXCEPT !.server = c] : a \in P, c \in {Some("example.org")}}

MainInit ==
    /\ pc = "main"
    /\ args \in {Some(a) : a \in UNION {{x, [x EXCEPT !.dry_run = TRUE]} : x \in ArgSets}}
    /\ station = None
    /\ report = None
    /\ packet = None
    /\ sock = "none"
    /\ sockBound = FALSE
    /\ failure = "none"
    /\ raised = "none"
    /\ IdleConv
    /\ IdleField

A == Val(args)

\* cwop = CWOP(...)
Construct ==
    /\ pc = "main"
    /\ LET r == CWOPInit(A.designator, A.lat, A.lon, A.server, A.alt, A.passcode)
       IN  /\ station' = r.self
           /\ raised' = r.raised
           /\ pc' = IF r.raised = "none" THEN "constructed" ELSE "crashed"
    /\ UNCHANGED <<report, packet, sock, sockBound, failure, args, conv, field>>

\* report = cwop.prepare_report(...)
PrepareReport ==
    /\ pc = "constructed"
    /\ \E now \in Clock :
         LET r == prepare_report(Val(station), A, now)
         IN  /\ report' = r.report
             /\ raised' = r.raised
             /\ pc' = IF r.raised = "none" THEN "prepared" ELSE "crashed"
    /\ UNCHANGED <<station, packet, sock, sockBound, failure, args, conv, field>>

\* if args.dry_run: ... report.to_cwop_packet() ...; sys.exit(0)
DryRun ==
    /\ pc = "prepared" /\ A.dry_run
    /\ packet' = Some(to_cwop_packet(Val(report)))
    /\ pc' = "exit0"
    /\ UNCHANGED <<station, report, sock, sockBound, failure, raised, args, conv, field>>

----------------------------------------------------------------------------
(* cwop.py: CWOP._open_socket and CWOP.send_report, one action per         *)
(* transport step.  The report passed by the main program is always a      *)
(* CWOPReport, so the isinstance test of send_report passes.               *)

\* failures of sock.connect
ConnectFailures == {"ConnectionRefusedError", "TimeoutError"}

\* failures of sock.recv / sock.sendall
IOFailures == {"TimeoutError", "ConnectionResetError"}

\* f"user {designator} pass {passcode} vers cwop-sender.py 0.5\n"
LoginLine(self) ==
    LET passcode == IF ~IsNone(self.passcode) /\ Val(self.passcode) # 0
                    THEN Val(self.passcode) ELSE -1
    IN  <<"u", "s", "e", "r", " ">> \o self.designator \o <<" ", "p", "a", "s", "s", " ">> \o IntStr(passcode) \o <<" ", "v", "e", "r", "s", " ", "c", "w", "o", "p", "-", "s", "e", "n", "d", "e", "r", ".", "p", "y", " ", "0", ".", "5", "\n">>

\* sock.close()
Close(s) == "closed"

\* the step fails with f: the exception propagates to the finally clause
Fail(f) ==
    /\ failure' = f
    /\ raised' = f
    /\ pc' = "finally"

\* sock = self._open_socket()
OpenSocket ==
    /\ pc = "prepared" /\ ~A.dry_run
    /\ \/ \* connect raises: _open_socket closes the socket and re-raises
          \E f \in ConnectFailures :
             /\ sock' = Close("open")
             /\ Fail(f)
             /\ UNCHANGED sockBound
       \/ \* socket.socket() raises: the except clause of _open_socket calls
          \* close() on its unbound local and raises UnboundLocalError
          /\ failure' = "OSError"
          /\ raised' = "UnboundLocalError"
          /\ pc' = "finally"
          /\ UNCHANGED <<sock, sockBound>>
       \/ \* connected: the socket is returned and bound in send_report
          /\ sock' = "open"
          /\ sockBound' = TRUE
          /\ pc' = "recv_greeting"
          /\ UNCHANGED <<failure, raised>>
    /\ UNCHANGED <<station, report, packet, args, conv, field>>

\* response = sock.recv(4096).decode("ASCII")
RecvGreeting ==
    /\ pc = "recv_greeting"
    /\ \/ \E f \in IOFailures \cup {"UnicodeDecodeError"} : Fail(f)
       \/ pc' = "login" /\ UNCHANGED <<failure, raised>>
    /\ UNCHANGED <<station, report, packet, sock, sockBound, args, conv, field>>

\* login = login.encode("ASCII"); sock.sendall(login)
Login ==
    /\ pc = "login"
    /\ IF ~IsASCII(LoginLine(Val(station)))
       THEN Fail("UnicodeEncodeError")
       ELSE \/ \E f \in IOFailures : Fail(f)
            \/ pc' = "recv_ack" /\ UNCHANGED <<failure, raised>>
    /\ UNCHANGED <<station, report, packet, sock, sockBound, args, conv, field>>

\* response = sock.recv(4096).decode("ASCII")
RecvAck ==
    /\ pc = "recv_ack"
    /\ \/ \E f \in IOFailures \cup {"UnicodeDecodeError"} : Fail(f)
       \/ pc' = "send_packet" /\ UNCHANGED <<failure, raised>>
    /\ UNCHANGED <<station, report, packet, sock, sockBound, args, conv, field>>

\* packet = report.to_cwop_packet(); sock.sendall(packet.encode("ASCII") + b"\n")
SendPacket ==
    /\ pc = "send_packet"
    /\ packet' = Some(to_cwop_packet(Val(report)))
    /\ IF ~IsASCII(Val(packet'))
       THEN Fail("UnicodeEncodeError")
       ELSE \/ \E f \in IOFailures : Fail(f)
            \/ pc' = "shutdown" /\ UNCHANGED <<failure, raised>>
    /\ UNCHANGED <<station, report, sock, sockBound, args, conv, field>>

\* sock.shutdown(socket.SHUT_RDWR)
Shutdown ==
    /\ pc = "shutdown"
    /\ \/ Fail("OSError")
       \/ pc' = "finally" /\ UNCHANGED <<failure, raised>>
    /\ UNCHANGED <<station, report, packet, sock, sockBound, args, conv, field>>

\* a variant that closes the socket at the end of the try block only
FinallyCloseOnSuccess ==
    /\ pc = "finally"
    /\ IF sockBound
       THEN /\ sock' = IF raised = "none" THEN Close(sock) ELSE sock
            /\ pc' = IF raised = "none" THEN "returned" ELSE "raised"
            /\ UNCHANGED raised
       ELSE /\ raised' = "UnboundLocalError"
            /\ pc' = "raised"
            /\ UNCHANGED sock
    /\ UNCHANGED <<station, report, packet, sockBound, failure, args, conv, field>>

\* finally: sock.close() -- `sock` is bound only when _open_socket returned
Finally ==
    /\ pc = "finally"
    /\ IF sockBound
       THEN /\ sock' = Close(sock)
            /\ pc' = IF raised = "none" THEN "returned" ELSE "raised"
            /\ UNCHANGED raised
       ELSE /\ raised' = "UnboundLocalError"
            /\ pc' = "raised"
            /\ UNCHANGED sock
    /\ UNCHANGED <<station, report, packet, sockBound, failure, args, conv, field>>

Next ==
    \/ Construct
    \/ PrepareReport
    \/ DryRun
    \/ OpenSocket
    \/ RecvGreeting
    \/ Login
    \/ RecvAck
    \/ SendPacket
    \/ Shutdown
    \/ Finally

Spec == MainInit /\ [][Next]_vars

----------------------------------------------------------------------------
(* Reading a packet back                                                   *)

P == Val(packet)

R == Val(report)

\* the characters p[off + 1 .. off + w], or <<>> past the end
FieldAt(p, off, w) == IF off + w <= Len(p) THEN SubSeq(p, off + 1, off + w) ELSE <<>>

CharAt(p, i) == IF i <= Len(p) THEN p[i] ELSE ""

AllDots(t) == \A i \in 1..Len(t) : t[i] = "."

\* a fixed-width field: the prefix, then w characters that are all filler
\* dots or all digits (with a possible sign)
IsFixed(t, prefix, w) ==
    /\ Len(t) = w + 1
    /\ t[1] = prefix
    /\ \/ AllDots(Tail(t))
       \/ \A i \in 2..Len(t) : t[i] \in Digits \cup {"-"}

IsFiller(t, prefix, w) == t = <<prefix>> \o Repeat(".", w)

EndsWith(p, t) == Len(p) >= Len(t) /\ SubSeq(p, Len(p) - Len(t) + 1, Len(p)) = t

StartsWith(p, t) == Len(p) >= Len(t) /\ SubSeq(p, 1, Len(t)) = t

\* offset of the weather section: designator, header, type character (and
\* time group), latitude, "/", longitude
WeatherStart ==
    LET h == Len(R.designator) + Len(APRSHeader)
    IN  h + (IF CharAt(P, h + 1) = "@" THEN 8 ELSE 1)
          + Len(R.latitude) + 1 + Len(R.longitude)

\* wind direction, wind, gust and temperature come first; a rain-1h field is
\* there when the next character is its prefix
HasRain1h == CharAt(P, WeatherStart + 17) = "r"

TailStart == WeatherStart + 16 + (IF HasRain1h THEN 4 ELSE 0)

\* rain-24h (4), rain-day (4), humidity (3), pressure (6), then illuminance
IlluminanceStart == TailStart + 17

HasIlluminance == CharAt(P, IlluminanceStart + 1) \in {"L", "l"}

SnowStart == IlluminanceStart + (IF HasIlluminance THEN 4 ELSE 0)

HasSnow == CharAt(P, SnowStart + 1) = "s"

\* the trailing tokens start after the snow field, whose end is the first
\* character that is neither a digit, a sign nor a dot
RECURSIVE SkipNumber(_, _)
SkipNumber(p, i) ==
    IF i <= Len(p) /\ p[i] \in Digits \cup {"-", "."} /\ FieldAt(p, i - 1, 2) # <<"-", " ">>
    THEN SkipNumber(p, i + 1) ELSE i

TrailerStart == IF HasSnow THEN SkipNumber(P, SnowStart + 2) - 1 ELSE SnowStart

Trailer == SubSeq(P, TrailerStart + 1, Len(P))

HasAltitude == StartsWith(Trailer, <<"/", "A", "=">>)

\* the text between an optional altitude token and the suffix
HasComment ==
    LET rest == IF HasAltitude
                THEN SubSeq(Trailer, 4 + Len(FloatStr(Val(R.altitude))), Len(Trailer))
                ELSE Trailer
    IN  rest # SoftwareSuffix /\ rest # <<" ">> \o SoftwareSuffix

\* the eight fields that are interpolated unconditionally, by offset
MandatoryFields ==
    << <<"wind_dir", "_", 3, WeatherStart>>,
       <<"wind", "/", 3, WeatherStart + 4>>,
       <<"gust", "g", 3, WeatherStart + 8>>,
       <<"temperature", "t", 3, WeatherStart + 12>>,
       <<"rain_24h", "p", 3, TailStart>>,
       <<"rain_day", "P", 3, TailStart + 4>>,
       <<"humidity", "h", 2, TailStart + 8>>,
       <<"pressure", "b", 5, TailStart + 11>> >>

MandatoryOk ==
    \A i \in 1..Len(MandatoryFields) :
        LET f == MandatoryFields[i]
            t == FieldAt(P, f[4], f[3] + 1)
        IN  /\ IsFixed(t, f[2], f[3])
            /\ IsNone(A[f[1]]) => IsFiller(t, f[2], f[3])

Sent == ~IsNone(packet)

----------------------------------------------------------------------------
(* Claims                                                                  *)

\* C1 (as stated): every field that prepare_report builds with
\* max_digits > 0 renders, for every input value, to exactly
\* len(prefix) + max_digits characters.
C1_RenderedWidth ==
    (field.kind \in Kinds /\ field.stage = "str" /\ Val(field.cv).max_digits > 0)
    => Len(field.text) = Len(Val(field.cv).prefix) + Val(field.cv).max_digits

\* C2 (as stated): in every packet each of the eleven weather fields
\* occupies its prefix plus its width, filler when unreported; only the
\* altitude and comment tokens may be absent.
C2_NoFieldOmitted ==
    Sent => /\ MandatoryOk
            /\ HasRain1h /\ IsFixed(FieldAt(P, WeatherStart + 16, 4), "r", 3)
            /\ HasIlluminance
            /\ HasSnow

\* C2 (amended): wind direction, wind, gust, temperature, rain-24h,
\* rain-day, humidity and pressure always occupy their prefix plus their
\* width, as filler when the measurement is unreported; rain-1h, illuminance
\* and snow-24h are in the packet exactly when they have a digit value; the
\* altitude token is there exactly when the altitude is non-zero and the
\* comment exactly when it is non-empty; the packet ends with the suffix.
C2_OptionalFieldsOmitted ==
    Sent => /\ MandatoryOk
            /\ HasRain1h <=> Bool(Val(R.fields["rain_1h"]))
            /\ HasIlluminance <=> (~IsNone(R.fields["illuminance"])
                                   /\ Bool(Val(R.fields["illuminance"])))
            /\ HasSnow <=> Bool(Val(R.fields["snow_24h"]))
            /\ IsNone(A.rain_1h) => ~HasRain1h
            /\ IsNone(A.illuminance) => ~HasIlluminance
            /\ IsNone(A.snow_24h) => ~HasSnow
            /\ HasAltitude <=> Truthy(A.alt)
            /\ HasComment <=> (~IsNone(A.comment) /\ Val(A.comment) # <<>>)
            /\ EndsWith(P, SoftwareSuffix)

\* a packet of a report without rain-1h, illuminance, snow, altitude and
\* comment: the mandatory fields are followed at once by the suffix
C2_Witness ==
    /\ Sent
    /\ \A k \in Kinds : IsNone(A[k])
    /\ IsNone(A.alt) /\ IsNone(A.comment)
    /\ ~HasRain1h /\ ~HasIlluminance /\ ~HasSnow
    /\ Trailer = SoftwareSuffix

\* whether abs(v) needs more than n digits (n >= 0; zero needs none)
NeedsMoreDigits(v, n) == Abs(v[1]) >= Pow10(n) * v[2]

\* r is v truncated toward zero
IsTruncOf(r, v) ==
    /\ Abs(r) * v[2] <= Abs(v[1])
    /\ Abs(v[1]) < (Abs(r) + 1) * v[2]
    /\ r # 0 => (r < 0 <=> v[1] < 0)

N2IDone == conv.fn = "number_to_max_length_int" /\ conv.stage = "done" /\ ~IsNone(conv.input)

\* the part of C3 about negative=True, for n > 0: None only when abs(v)
\* needs more than n - 1 digits, otherwise v truncated toward zero
C3_SignedPart ==
    (N2IDone /\ conv.negative /\ conv.max_length > 0) =>
        /\ IsNone(conv.result) => NeedsMoreDigits(Val(conv.input), conv.max_length - 1)
        /\ ~NeedsMoreDigits(Val(conv.input), conv.max_length - 1) =>
              (~IsNone(conv.result) /\ IsTruncOf(Val(conv.result), Val(conv.input)))

\* C3 (as stated): with negative=False the result is None for every
\* negative v, fractional negatives such as -0.5 included; with
\* negative=True and n > 0 it is None only when abs(v) needs more than
\* n - 1 digits, otherwise v truncated toward zero.
C3_NegativeAbsent ==
    /\ (N2IDone /\ ~conv.negative /\ Val(conv.input)[1] < 0) => IsNone(conv.result)
    /\ C3_SignedPart

\* C3 (amended): with negative=False the result is None for every v <= -1
\* and 0 for every v with -1 < v < 0; the part about negative=True stands.
C3_TruncatedNegativeAbsent ==
    /\ (N2IDone /\ ~conv.negative /\ Val(conv.input)[1] <= -Val(conv.input)[2])
          => IsNone(conv.result)
    /\ (N2IDone /\ ~conv.negative /\ Val(conv.input)[1] < 0
                /\ Val(conv.input)[1] > -Val(conv.input)[2])
          => conv.result = Some(0)
    /\ C3_SignedPart

\* number_to_max_length_int(-0.5, 3, negative=False) has returned 0
C3_Witness ==
    /\ N2IDone /\ ~conv.negative /\ conv.max_length = 3
    /\ conv.input = Some(Tenths(-5))
    /\ conv.result = Some(0)

\* degw degree digits, MM.mm below 60.00, then a hemisphere letter
IsLoran(t, degw, coord, letters) ==
    /\ Len(t) = degw + 6
    /\ SubSeq(t, 1, degw) = PadLeft(NatStr(Abs(coord[1]) \div coord[2]), degw, "0")
    /\ t[degw + 1] \in Digits /\ t[degw + 2] \in Digits
    /\ t[degw + 3] = "."
    /\ t[degw + 4] \in Digits /\ t[degw + 5] \in Digits
    /\ 10 * DigitVal(t[degw + 1]) + DigitVal(t[degw + 2]) < 60
    /\ t[degw + 6] \in letters

\* C4 (as stated): latitude_loran gives DDMM.mmN/S (8 characters) and
\* longitude_loran DDDMM.mmE/W (9 characters) for every coordinate in range,
\* also when the degrees or the minutes are below 10.
C4_LoranForm ==
    /\ (conv.fn = "latitude_loran" /\ conv.stage = "done" /\ ~IsNone(conv.coord))
          => /\ conv.result.raised = "none"
             /\ IsLoran(conv.result.value, 2, Val(conv.coord), {"N", "S"})
    /\ (conv.fn = "longitude_loran" /\ conv.stage = "done" /\ ~IsNone(conv.coord))
          => /\ conv.result.raised = "none"
             /\ IsLoran(conv.result.value, 3, Val(conv.coord), {"E", "W"})

\* C5 (as stated): N0CALL at 45.0 / -122.0 with temperature 20 C, no
\* timestamp and nothing else gives a packet that begins with
\* N0CALL>APRS,TCPIP*:=4500.00N/12200.00W, then filler wind direction, wind
\* and gust, then t068, then only filler fields, then the suffix.
C5_EndToEnd ==
    (/\ Sent
     /\ A.designator = N0CALL
     /\ A.lat = Some(Coord(4500000)) /\ A.lon = Some(Coord(-12200000))
     /\ A.temperature = Some(Tenths(200))
     /\ A.timestamp = [given |-> TRUE, value |-> None]
     /\ \A k \in Kinds \ {"temperature"} : IsNone(A[k])
     /\ IsNone(A.alt) /\ IsNone(A.comment))
    => LET begin == <<"N", "0", "C", "A", "L", "L", ">", "A", "P", "R", "S", ",", "T", "C", "P", "I", "P", "*", ":", "=", "4", "5", "0", "0", ".", "0", "0", "N", "/", "1", "2", "2", "0", "0", ".", "0", "0", "W", "_", ".", ".", ".", "/", ".", ".", ".", "g", ".", ".", ".", "t", "0", "6", "8">>
       IN  /\ StartsWith(P, begin)
           /\ EndsWith(P, SoftwareSuffix)
           /\ \A i \in (Len(begin) + 1)..(Len(P) - Len(SoftwareSuffix)) :
                 P[i] \in {".", "r", "p", "P", "h", "b", "L", "s"}

\* the text of the illuminance field that C6 describes for a raw value v
C6_Expected(v) ==
    IF RatLt(v, RatInt(1000))
    THEN <<"L">> \o PadLeft(NatStr(Trunc(v)), 3, "0")
    ELSE <<"l">> \o PadLeft(NatStr(Trunc(v) - 1000), 3, "0")

\* C6 (as stated): a supplied illuminance v (v >= 0) is in the packet as L
\* and the three digits of v when v < 1000, as l and the three digits of
\* v - 1000 when v >= 1000, and is never dropped.
C6_IlluminancePrefix ==
    (Sent /\ ~IsNone(A.illuminance) /\ Val(A.illuminance)[1] >= 0)
    => /\ HasIlluminance
       /\ FieldAt(P, IlluminanceStart, 4) = C6_Expected(Val(A.illuminance))

\* C7: when send_report has returned or raised, a socket that was created
\* is closed.
C7_SocketClosed ==
    (pc \in {"returned", "raised"} /\ sock # "none") => sock = "closed"

\* send_report has raised after a step on the connected socket failed, and
\* the socket is closed
C7_Witness ==
    /\ pc = "raised"
    /\ sockBound
    /\ failure = "ConnectionResetError"
    /\ sock = "closed"

\* C8 (as stated): the failure that leaves send_report is the failure of the
\* transport step that failed.
C8_SameFailure ==
    (pc = "raised" /\ failure # "none") => raised = failure

\* C9 (as stated): a negative digit value within the budget renders as the
\* prefix, the sign, then the magnitude zero-padded to max_digits - 1.
C9_SignFirst ==
    (/\ field.kind = "temperature" /\ field.stage = "str"
     /\ Bool(Val(field.cv)) /\ Val(Val(field.cv).int_value).neg)
    => field.text = Val(field.cv).prefix \o <<"-">>
                    \o PadLeft(NatStr(Val(Val(field.cv).int_value).mag),
                               Val(field.cv).max_digits - 1, "0")

\* the text of a zero reading of each measurement (0 C is 32 F)
ZeroText(kind) ==
    CASE kind = "wind_dir" -> <<"_", "0", "0", "0">>
      [] kind = "wind" -> <<"/", "0", "0", "0">>
      [] kind = "gust" -> <<"g", "0", "0", "0">>
      [] kind = "temperature" -> <<"t", "0", "3", "2">>
      [] kind = "rain_1h" -> <<"r", "0", "0", "0">>
      [] kind = "rain_24h" -> <<"p", "0", "0", "0">>
      [] kind = "rain_day" -> <<"P", "0", "0", "0">>
      [] kind = "humidity" -> <<"h", "0", "0">>
      [] kind = "pressure" -> <<"b", "0", "0", "0", "0", "0">>
      [] kind = "illuminance" -> <<"L", "0", "0", "0">>
      [] kind = "snow_24h" -> <<"s", "0", "0", "0">>

\* where each measurement's field starts in the packet
FieldStart(kind) ==
    CASE kind = "wind_dir" -> WeatherStart
      [] kind = "wind" -> WeatherStart + 4
      [] kind = "gust" -> WeatherStart + 8
      [] kind = "temperature" -> WeatherStart + 12
      [] kind = "rain_1h" -> WeatherStart + 16
      [] kind = "rain_24h" -> TailStart
      [] kind = "rain_day" -> TailStart + 4
      [] kind = "humidity" -> TailStart + 8
      [] kind = "pressure" -> TailStart + 11
      [] kind = "illuminance" -> IlluminanceStart
      [] kind = "snow_24h" -> SnowStart

\* C10 (as stated): a measurement given as 0 is in the packet as a reported
\* zero, and an altitude of 0 as the token /A=0.
C10_ZeroReported ==
    Sent =>
        /\ \A k \in Kinds :
              A[k] = Some(Tenths(0)) =>
                 FieldAt(P, FieldStart(k), Len(ZeroText(k))) = ZeroText(k)
        /\ A.alt = Some(RatInt(0)) => StartsWith(Trailer, <<"/", "A", "=", "0">>)

====
